---------------------------- MODULE Spec2Model ----------------------------
(***************************************************************************)
(* A model of tufte_style_plots: the input validator, the percentage       *)
(* normalizer, the range-frame calculator and the three plotting entry     *)
(* points (histogram, line, scatter) that combine them.                    *)
(*                                                                         *)
(* Floating-point numbers are modelled as exact rationals extended with    *)
(* the IEEE markers nan, +inf and -inf, and with a largest finite value     *)
(* beyond which a result overflows to an infinity.  Rounding error is not  *)
(* modelled: an equality checked here holds "within floating tolerance" in *)
(* the code.                                                               *)
(***************************************************************************)
EXTENDS Integers, Sequences, FiniteSets, TLC

VARIABLES pc, op, args, outcome, ret, norms, ax, nfig, rcParams

vars == <<pc, op, args, outcome, ret, norms, ax, nfig, rcParams>>

(***************************************************************************)
(* Bounds of the model.                                                    *)
(***************************************************************************)
\* finite sample values are the whole numbers 0..MaxVal
MaxVal == 2
\* longest sample handed to validate_data, normalize_to_percentage, histogram
MaxLen == 3
\* largest integer bin count; explicit edge sequences have at most MaxBins bins
MaxBins == 3
\* longest array handed to range_frame, line and scatter
MaxPairLen == 2
\* most y series in one call of line: one more than the palette has colors
MaxSeries == 5

(***************************************************************************)
(* Numbers: a float is [k, n, d]; k is "fin" (the rational n/d in lowest   *)
(* terms, d > 0), "nan", "pinf" or "ninf".                                 *)
(***************************************************************************)
Abs(i) == IF i < 0 THEN -i ELSE i

RECURSIVE GCD(_, _)
GCD(a, b) == IF b = 0 THEN a ELSE GCD(b, a % b)

Frac(n, d) ==
    LET s == IF d < 0 THEN -1 ELSE 1
        g == GCD(Abs(n), Abs(d))
    IN  [k |-> "fin", n |-> (s * n) \div g, d |-> (s * d) \div g]

Whole(i) == [k |-> "fin", n |-> i, d |-> 1]
NaN == [k |-> "nan", n |-> 0, d |-> 1]
PosInf == [k |-> "pinf", n |-> 0, d |-> 1]
NegInf == [k |-> "ninf", n |-> 0, d |-> 1]
Zero == Whole(0)
Half == Frac(1, 2)

IsNaN(a) == a.k = "nan"
IsFinite(a) == a.k = "fin"

\* -1, 0 or 1; not used on nan
Sign(a) ==
    CASE a.k = "pinf" -> 1
      [] a.k = "ninf" -> -1
      [] OTHER -> IF a.n > 0 THEN 1 ELSE IF a.n < 0 THEN -1 ELSE 0

\* the largest finite float, scaled down: a finite result of larger
\* magnitude overflows to an infinity
MaxFloat == 1000

Overflow(a) ==
    IF a.k = "fin" /\ Abs(a.n) > MaxFloat * a.d
    THEN (IF a.n > 0 THEN PosInf ELSE NegInf)
    ELSE a

FNeg(a) ==
    CASE a.k = "fin" -> [k |-> "fin", n |-> -a.n, d |-> a.d]
      [] a.k = "pinf" -> NegInf
      [] a.k = "ninf" -> PosInf
      [] OTHER -> NaN

FAdd(a, b) ==
    IF IsNaN(a) \/ IsNaN(b) THEN NaN
    ELSE IF IsFinite(a) /\ IsFinite(b)
         THEN Overflow(Frac(a.n * b.d + b.n * a.d, a.d * b.d))
    ELSE IF IsFinite(a) THEN b
    ELSE IF IsFinite(b) THEN a
    ELSE IF a.k = b.k THEN a ELSE NaN

FSub(a, b) == FAdd(a, FNeg(b))

FMul(a, b) ==
    IF IsNaN(a) \/ IsNaN(b) THEN NaN
    ELSE IF IsFinite(a) /\ IsFinite(b) THEN Overflow(Frac(a.n * b.n, a.d * b.d))
    ELSE IF Sign(a) * Sign(b) = 0 THEN NaN
    ELSE IF Sign(a) * Sign(b) > 0 THEN PosInf ELSE NegInf

\* only finite operands are ever divided (bin counts by their total)
FDiv(a, b) ==
    IF IsNaN(a) \/ IsNaN(b) \/ ~IsFinite(a) \/ ~IsFinite(b) THEN NaN
    ELSE IF b.n = 0
         THEN (IF a.n = 0 THEN NaN ELSE IF a.n > 0 THEN PosInf ELSE NegInf)
    ELSE Overflow(Frac(a.n * b.d, a.d * b.n))

\* IEEE comparisons: every comparison with nan is false
FLt(a, b) ==
    /\ ~IsNaN(a)
    /\ ~IsNaN(b)
    /\ IF IsFinite(a) /\ IsFinite(b) THEN a.n * b.d < b.n * a.d
       ELSE IF a.k = b.k THEN FALSE
       ELSE a.k = "ninf" \/ b.k = "pinf"

FEq(a, b) == ~IsNaN(a) /\ ~IsNaN(b) /\ a = b
FLe(a, b) == FLt(a, b) \/ FEq(a, b)
FGt(a, b) == FLt(b, a)
FGe(a, b) == FLe(b, a)

RECURSIVE SeqSum(_)
SeqSum(s) == IF s = <<>> THEN 0 ELSE Head(s) + SeqSum(Tail(s))

\* F applied to the value of e: e is evaluated once, whatever the number of
\* places F uses it in
Let(e, F(_)) == CHOOSE r \in {F(x) : x \in {e}} : TRUE

\* np.min / np.max of a non-empty array: nan if any element is nan
NpMin(a) ==
    IF \E i \in 1..Len(a) : IsNaN(a[i]) THEN NaN
    ELSE CHOOSE m \in {a[i] : i \in 1..Len(a)} : \A j \in 1..Len(a) : FLe(m, a[j])

NpMax(a) ==
    IF \E i \in 1..Len(a) : IsNaN(a[i]) THEN NaN
    ELSE CHOOSE m \in {a[i] : i \in 1..Len(a)} : \A j \in 1..Len(a) : FGe(m, a[j])

(***************************************************************************)
(* Inputs.                                                                 *)
(***************************************************************************)
SeqsUpTo(S, n) == UNION {[1..m -> S] : m \in 0..n}

\* sample values: whole numbers, the missing marker and infinity
Values == {Whole(i) : i \in 0..MaxVal} \cup {NaN, PosInf}
PairValues == {Whole(0), Whole(MaxVal), NaN, PosInf}

\* samples of histogram and normalize_to_percentage; the last one is the
\* six-value sample with bin counts 1, 2, 3
Samples ==
    SeqsUpTo(Values, MaxLen)
        \cup {<<Whole(1), Whole(2), Whole(2), Whole(3), Whole(3), Whole(3)>>}

\* arrays of range_frame, line and scatter
PairSamples == SeqsUpTo(PairValues, MaxPairLen)

\* arrays of range_frame alone: also two arrays of finite values as large as
\* a float can be, whose range or padded limit is far beyond the largest
\* float
FrameSamples ==
    PairSamples \cup {<<Whole(-MaxFloat), Whole(MaxFloat)>>, <<Zero, Whole(MaxFloat)>>}

\* a Python value handed to validate_data: ty is its type, elems its
\* elements where it has numeric ones
Obj(ty, elems) == [ty |-> ty, elems |-> elems]
Arr(elems) == Obj("ndarray", elems)

\* list and ndarray of numbers, pandas Series; a list of rows of unequal
\* length, a list of strings and a dict, which have no numeric elements:
\* elems then only gives their size, which is not zero
NumericTypes == {"list", "ndarray", "Series"}
OtherTypes == {"ragged", "strlist", "dict"}
Objects ==
    {Obj(ty, e) : ty \in NumericTypes, e \in Samples}
        \cup {Obj(ty, e) : ty \in OtherTypes, e \in Samples \ {<<>>}}

(***************************************************************************)
(* utils.to_array and utils.validate_data                                  *)
(***************************************************************************)
\* hasattr(data, 'values'): a pandas Series, and also a dict, whose
\* 'values' is a bound method and no array
HasValues(data) == data.ty \in {"Series", "dict"}

\* the result of to_array: raised (np.asarray failed), or the value returned
\* with isArray (it has .size), numeric (np.isnan accepts its dtype)
to_array(data) ==
    IF HasValues(data)
    THEN [raised |-> FALSE, isArray |-> data.ty = "Series", numeric |-> TRUE,
          elems |-> data.elems]
    ELSE IF data.ty = "ragged"
    THEN [raised |-> TRUE, isArray |-> FALSE, numeric |-> FALSE, elems |-> <<>>]
    ELSE [raised |-> FALSE, isArray |-> TRUE, numeric |-> data.ty # "strlist",
          elems |-> data.elems]

AllNaN(a) == \A i \in 1..Len(a) : IsNaN(a[i])

validate_data_NoEmptyCheck(data) ==
    Let(to_array(data), LAMBDA c :
    IF c.raised THEN [outcome |-> "TypeError", arr |-> <<>>]
    ELSE IF ~c.isArray THEN [outcome |-> "AttributeError", arr |-> <<>>]
    ELSE IF ~c.numeric THEN [outcome |-> "TypeError", arr |-> <<>>]
    ELSE IF Len(c.elems) > 0 /\ AllNaN(c.elems)
         THEN [outcome |-> "ValueError", arr |-> <<>>]
    ELSE [outcome |-> "ok", arr |-> c.elems])

validate_data_NoNaNCheck(data) ==
    Let(to_array(data), LAMBDA c :
    IF c.raised THEN [outcome |-> "TypeError", arr |-> <<>>]
    ELSE IF ~c.isArray THEN [outcome |-> "AttributeError", arr |-> <<>>]
    ELSE IF Len(c.elems) = 0 THEN [outcome |-> "ValueError", arr |-> <<>>]
    ELSE IF ~c.numeric THEN [outcome |-> "TypeError", arr |-> <<>>]
    ELSE [outcome |-> "ok", arr |-> c.elems])

validate_data(data) ==
    Let(to_array(data), LAMBDA c :
    IF c.raised THEN [outcome |-> "TypeError", arr |-> <<>>]
    \* arr.size of a value that is no array
    ELSE IF ~c.isArray THEN [outcome |-> "AttributeError", arr |-> <<>>]
    ELSE IF Len(c.elems) = 0 THEN [outcome |-> "ValueError", arr |-> <<>>]
    \* np.isnan of a non-numeric dtype
    ELSE IF ~c.numeric THEN [outcome |-> "TypeError", arr |-> <<>>]
    ELSE IF AllNaN(c.elems) THEN [outcome |-> "ValueError", arr |-> <<>>]
    ELSE [outcome |-> "ok", arr |-> c.elems])

(***************************************************************************)
(* numpy.histogram, as utils.normalize_to_percentage calls it.  A bin      *)
(* specification is [kind, n, edges]: kind "int" with the count n, kind    *)
(* "name" (a named strategy such as 'auto') with n the count the library's *)
(* estimator arrives at, or kind "edges" with the explicit edge sequence.  *)
(***************************************************************************)
IntBins(n) == [kind |-> "int", n |-> n, edges |-> <<>>]
NameBins(n) == [kind |-> "name", n |-> n, edges |-> <<>>]
EdgeBins(e) == [kind |-> "edges", n |-> 0, edges |-> e]

\* the data range of equal-width bins: it must be finite, and a single point
\* is widened by half a unit on each side
GetOuterEdges(a) ==
    IF Len(a) = 0 THEN [raised |-> FALSE, first |-> Zero, last |-> Whole(1)]
    ELSE Let([mn |-> NpMin(a), mx |-> NpMax(a)], LAMBDA m :
         IF ~(IsFinite(m.mn) /\ IsFinite(m.mx))
         THEN [raised |-> TRUE, first |-> m.mn, last |-> m.mx]
         ELSE IF FEq(m.mn, m.mx)
         THEN [raised |-> FALSE, first |-> FSub(m.mn, Half), last |-> FAdd(m.mx, Half)]
         ELSE [raised |-> FALSE, first |-> m.mn, last |-> m.mx])

\* np.linspace(first, last, n + 1)
Linspace(first, last, n) ==
    [i \in 1..(n + 1) |->
        FAdd(first, FMul(Frac(i - 1, n), FSub(last, first)))]

\* bin i is [e[i], e[i+1]), and the last bin also holds its right edge;
\* nan and values outside the edges fall into no bin
InBin(v, e, i) ==
    /\ FLe(e[i], v)
    /\ \/ FLt(v, e[i + 1])
       \/ i = Len(e) - 1 /\ FEq(v, e[i + 1])

BinCounts_PerEdge(a, e) ==
    [i \in 1..Len(e) |->
        IF i = Len(e) THEN 0
        ELSE Cardinality({j \in 1..Len(a) : InBin(a[j], e, i)})]

BinCounts(a, e) ==
    [i \in 1..(Len(e) - 1) |-> Cardinality({j \in 1..Len(a) : InBin(a[j], e, i)})]

Monotonic(e) == \A i \in 1..(Len(e) - 1) : FLe(e[i], e[i + 1])

NpHistogram(a, bins) ==
    IF bins.kind = "edges"
    THEN IF ~Monotonic(bins.edges)
         THEN [raised |-> TRUE, counts |-> <<>>, bin_edges |-> <<>>]
         ELSE [raised |-> FALSE, counts |-> BinCounts(a, bins.edges),
               bin_edges |-> bins.edges]
    ELSE IF bins.n < 1
    THEN [raised |-> TRUE, counts |-> <<>>, bin_edges |-> <<>>]
    ELSE Let(GetOuterEdges(a), LAMBDA r :
         IF r.raised
         THEN [raised |-> TRUE, counts |-> <<>>, bin_edges |-> <<>>]
         ELSE Let(Linspace(r.first, r.last, bins.n), LAMBDA e :
              [raised |-> FALSE, counts |-> BinCounts(a, e), bin_edges |-> e]))

\* the bin counts a named strategy may arrive at: one bin when the estimated
\* width is zero (constant data), otherwise a count the estimator chooses
AutoBins(a) ==
    IF Len(a) = 0 THEN {1}
    ELSE Let([mn |-> NpMin(a), mx |-> NpMax(a)], LAMBDA m :
         IF ~IsFinite(m.mn) \/ ~IsFinite(m.mx) \/ FEq(m.mn, m.mx)
         THEN {1}
         ELSE 1..MaxBins)

\* strictly increasing explicit edges over the whole numbers 0..MaxVal+1,
\* and one decreasing sequence, which numpy rejects
EdgeSeqs ==
    {e \in UNION {[1..m -> {Whole(i) : i \in 0..(MaxVal + 1)}] : m \in 2..(MaxBins + 1)} :
        \A i \in 1..(Len(e) - 1) : FLt(e[i], e[i + 1])}
        \cup {<<Whole(1), Whole(0)>>}

BinSpecs(a) ==
    {IntBins(n) : n \in 0..MaxBins}
        \cup {NameBins(n) : n \in AutoBins(a)}
        \cup {EdgeBins(e) : e \in EdgeSeqs}

(***************************************************************************)
(* utils.normalize_to_percentage                                           *)
(***************************************************************************)
Percent(c, total) == FMul(FDiv(Whole(c), Whole(total)), Whole(100))

normalize_to_percentage_BySize(data, bins) ==
    Let(NpHistogram(data, bins), LAMBDA h :
    IF h.raised
    THEN [outcome |-> "ValueError", counts |-> <<>>, total |-> 0,
          percentages |-> <<>>, bin_edges |-> <<>>]
    ELSE Let(SeqSum(h.counts), LAMBDA total :
         [outcome |-> "ok", counts |-> h.counts, total |-> total,
          percentages |->
              IF total > 0
              THEN [i \in 1..Len(h.counts) |-> Percent(h.counts[i], Len(data))]
              ELSE [i \in 1..Len(h.counts) |-> Whole(h.counts[i])],
          bin_edges |-> h.bin_edges]))

normalize_to_percentage_Fraction(data, bins) ==
    Let(NpHistogram(data, bins), LAMBDA h :
    IF h.raised
    THEN [outcome |-> "ValueError", counts |-> <<>>, total |-> 0,
          percentages |-> <<>>, bin_edges |-> <<>>]
    ELSE Let(SeqSum(h.counts), LAMBDA total :
         [outcome |-> "ok", counts |-> h.counts, total |-> total,
          percentages |->
              IF total > 0
              THEN [i \in 1..Len(h.counts) |-> FDiv(Whole(h.counts[i]), Whole(total))]
              ELSE [i \in 1..Len(h.counts) |-> Whole(h.counts[i])],
          bin_edges |-> h.bin_edges]))

normalize_to_percentage_NoGuard(data, bins) ==
    Let(NpHistogram(data, bins), LAMBDA h :
    IF h.raised
    THEN [outcome |-> "ValueError", counts |-> <<>>, total |-> 0,
          percentages |-> <<>>, bin_edges |-> <<>>]
    ELSE Let(SeqSum(h.counts), LAMBDA total :
         [outcome |-> "ok", counts |-> h.counts, total |-> total,
          percentages |->
              [i \in 1..Len(h.counts) |-> Percent(h.counts[i], total)],
          bin_edges |-> h.bin_edges]))

normalize_to_percentage(data, bins) ==
    Let(NpHistogram(data, bins), LAMBDA h :
    IF h.raised
    THEN [outcome |-> "ValueError", counts |-> <<>>, total |-> 0,
          percentages |-> <<>>, bin_edges |-> <<>>]
    ELSE Let(SeqSum(h.counts), LAMBDA total :
         [outcome |-> "ok", counts |-> h.counts, total |-> total,
          percentages |->
              IF total > 0
              THEN [i \in 1..Len(h.counts) |-> Percent(h.counts[i], total)]
              ELSE [i \in 1..Len(h.counts) |-> Whole(h.counts[i])],
          bin_edges |-> h.bin_edges]))

\* what one returned call of normalize_to_percentage was given and gave
NormRecord(data, bins, r) ==
    [data |-> data, bins |-> bins, counts |-> r.counts, total |-> r.total,
     percentages |-> r.percentages, bin_edges |-> r.bin_edges]

(***************************************************************************)
(* The axes of the plotting library, as far as this package configures     *)
(* them: display limits, the bounds of the bottom and left spines, and     *)
(* what was drawn.                                                         *)
(***************************************************************************)
\* display limits of a new axes: (0, 1), autoscaled; set_xlim/set_ylim
\* turns autoscaling of the axis off
NewLim == [lo |-> Zero, hi |-> Whole(1), auto |-> TRUE]
\* a spine whose set_bounds was never called spans the whole axis
NoBounds == [set |-> FALSE, lo |-> Zero, hi |-> Zero]

NewAxes ==
    [xlim |-> NewLim, ylim |-> NewLim, bottom |-> NoBounds, left |-> NoBounds,
     bars |-> <<>>, lines |-> <<>>, points |-> <<>>,
     topbars |-> <<>>, rightbars |-> <<>>, styled |-> FALSE]

None == [some |-> FALSE, v |-> <<>>]
Some(a) == [some |-> TRUE, v |-> a]

\* x_padding / y_padding default
DefaultPadding == Frac(1, 50)
\* padding fractions tried by direct calls of range_frame
Pads == {Zero, DefaultPadding, Frac(1, 10)}

\* Axes.set_xlim / set_ylim with both limits: a limit that is nan or
\* infinite is rejected with ValueError before anything is changed
SetLim(lim, lo, hi) ==
    IF ~(IsFinite(lo) /\ IsFinite(hi))
    THEN [outcome |-> "ValueError", lim |-> lim]
    ELSE [outcome |-> "ok", lim |-> [lo |-> lo, hi |-> hi, auto |-> FALSE]]

\* one axis of range_frame: the display limits and the spine bounds after it
RangeFrameAxis(lim, bounds, data, padding) ==
    IF ~data.some THEN [outcome |-> "ok", lim |-> lim, bounds |-> bounds]
    \* np.min of an empty array
    ELSE IF Len(data.v) = 0 THEN [outcome |-> "ValueError", lim |-> lim, bounds |-> bounds]
    ELSE Let([mn |-> NpMin(data.v), mx |-> NpMax(data.v)], LAMBDA d :
         LET d_range == FSub(d.mx, d.mn)
             lo == IF FGt(d_range, Zero)
                   THEN FSub(d.mn, FMul(padding, d_range)) ELSE FSub(d.mn, Half)
             hi == IF FGt(d_range, Zero)
                   THEN FAdd(d.mx, FMul(padding, d_range)) ELSE FAdd(d.mx, Half)
         IN  Let(SetLim(lim, lo, hi), LAMBDA r :
             IF r.outcome # "ok"
             THEN [outcome |-> r.outcome, lim |-> lim, bounds |-> bounds]
             ELSE [outcome |-> "ok", lim |-> r.lim,
                   bounds |-> [set |-> TRUE, lo |-> d.mn, hi |-> d.mx]]))

range_frame_CrossPadding(a, x_data, y_data, x_padding, y_padding) ==
    Let(RangeFrameAxis(a.xlim, a.bottom, x_data, x_padding), LAMBDA rx :
    IF rx.outcome # "ok" THEN [outcome |-> rx.outcome, ax |-> a]
    ELSE Let(RangeFrameAxis(a.ylim, a.left, y_data, x_padding), LAMBDA ry :
         [outcome |-> ry.outcome,
          ax |-> [a EXCEPT !.xlim = rx.lim, !.bottom = rx.bounds,
                           !.ylim = ry.lim, !.left = ry.bounds]]))

\* utils.range_frame: the x axis, then the y axis; a failure on x leaves y
\* untouched, a failure on y leaves x as already set
range_frame(a, x_data, y_data, x_padding, y_padding) ==
    Let(RangeFrameAxis(a.xlim, a.bottom, x_data, x_padding), LAMBDA rx :
    IF rx.outcome # "ok" THEN [outcome |-> rx.outcome, ax |-> a]
    ELSE Let(RangeFrameAxis(a.ylim, a.left, y_data, y_padding), LAMBDA ry :
         [outcome |-> ry.outcome,
          ax |-> [a EXCEPT !.xlim = rx.lim, !.bottom = rx.bounds,
                           !.ylim = ry.lim, !.left = ry.bounds]]))

\* utils.set_tufte_style: despine and tick reduction; no limits change
set_tufte_style(a) == [a EXCEPT !.styled = TRUE]

\* ax.bar(bin_edges[:-1], percentages, width=bin_width, align='edge')
Bars(bin_edges, percentages, width) ==
    [i \in 1..Len(percentages) |->
        [left |-> bin_edges[i], width |-> width, height |-> percentages[i]]]

\* ax.set_ylim(bottom=0): the top limit stays the autoscaled one
SetYlimBottom(a) == [a EXCEPT !.ylim = [lo |-> Zero, hi |-> a.ylim.hi, auto |-> FALSE]]

(***************************************************************************)
(* Figures and axes as the caller sees them.  A figure is [id, figsize]:   *)
(* id "new" for the figure a call creates, "caller" for a figure the       *)
(* caller made before the call.  An axes handle is [fig, slot].            *)
(***************************************************************************)
\* FIGURE_SIZES['default'] and FIGURE_SIZES['square'], a size the caller
\* passes as figsize, and the size of the caller's own figure
DefaultSize == "default"
SquareSize == "square"
CustomSize == "custom"
CallerSize == "caller"

Figure(id, figsize) == [id |-> id, figsize |-> figsize]
AxesOf(fig, slot) == [fig |-> fig, slot |-> slot]

\* the axes of `fig, ax = plt.subplots()` made by the caller: new and empty
CallerAxes == AxesOf(Figure("caller", CallerSize), "subplot")

\* ax=None, and ax=handle
NoAx == [some |-> FALSE, v |-> AxesOf(Figure("none", "none"), "none")]

create_figure_and_axes_AlwaysNew(figsize, ax0) ==
    [fig |-> Figure("new", figsize),
     ax |-> AxesOf(Figure("new", figsize), "subplot"), nfig |-> 1]

\* utils.create_figure_and_axes(figsize, ax): ax is NoAx or Some(handle)
create_figure_and_axes(figsize, ax0) ==
    IF ax0.some
    THEN [fig |-> ax0.v.fig, ax |-> ax0.v, nfig |-> 0]
    ELSE [fig |-> Figure("new", figsize),
          ax |-> AxesOf(Figure("new", figsize), "subplot"), nfig |-> 1]

(***************************************************************************)
(* core.histogram, core.line, core.scatter.  Each gives what the call left *)
(* behind: its outcome ("ok" or the exception raised), the content of the  *)
(* axes it worked on, the number of figures it created, the                *)
(* normalizations that returned, and the value returned.                   *)
(***************************************************************************)
Result(o, a, f, n) == [outcome |-> o, ax |-> a, nfig |-> f, norms |-> n, ret |-> <<>>]

\* return fig, ax
Return(a, f, n, fig, handle) ==
    [outcome |-> "ok", ax |-> a, nfig |-> f, norms |-> n,
     ret |-> <<fig, [type |-> "Axes", v |-> handle]>>]

\* return fig, axes_dict
ReturnDict(a, f, n, fig, mapping) ==
    [outcome |-> "ok", ax |-> a, nfig |-> f, norms |-> n,
     ret |-> <<fig, [type |-> "dict", v |-> mapping]>>]

\* len(GRAYSCALE_PALETTE)
PaletteLen == 4

Min(a, b) == IF a < b THEN a ELSE b
Max(a, b) == IF a > b THEN a ELSE b

\* the axes of a call that drew `drawn` and styled them, then range_frame
Finish(drawn, x_data, y_data) ==
    Let(set_tufte_style(drawn), LAMBDA a :
        range_frame(a, x_data, y_data, DefaultPadding, DefaultPadding))

HistogramCall_FrameBothAxes(data, bins, figsize, ax0) ==
    Let(validate_data(data), LAMBDA v :
    IF v.outcome # "ok" THEN Result(v.outcome, NewAxes, 0, <<>>)
    ELSE Let(create_figure_and_axes(figsize, ax0), LAMBDA c :
         Let(normalize_to_percentage(v.arr, bins), LAMBDA r :
         IF r.outcome # "ok" THEN Result(r.outcome, NewAxes, c.nfig, <<>>)
         ELSE LET n == <<NormRecord(v.arr, bins, r)>>
                  bin_width == FSub(r.bin_edges[2], r.bin_edges[1])
                  a1 == [NewAxes EXCEPT
                            !.bars = Bars(r.bin_edges, r.percentages, bin_width)]
              IN  Let(Finish(a1, Some(v.arr), Some(v.arr)), LAMBDA f :
                  IF f.outcome # "ok" THEN Result(f.outcome, f.ax, c.nfig, n)
                  ELSE Return(SetYlimBottom(f.ax), c.nfig, n, c.fig, c.ax)))))

HistogramCall(data, bins, figsize, ax0) ==
    Let(validate_data(data), LAMBDA v :
    IF v.outcome # "ok" THEN Result(v.outcome, NewAxes, 0, <<>>)
    ELSE Let(create_figure_and_axes(figsize, ax0), LAMBDA c :
         Let(normalize_to_percentage(v.arr, bins), LAMBDA r :
         IF r.outcome # "ok" THEN Result(r.outcome, NewAxes, c.nfig, <<>>)
         ELSE LET n == <<NormRecord(v.arr, bins, r)>>
                  bin_width == FSub(r.bin_edges[2], r.bin_edges[1])
                  a1 == [NewAxes EXCEPT
                            !.bars = Bars(r.bin_edges, r.percentages, bin_width)]
              IN  Let(Finish(a1, Some(v.arr), None), LAMBDA f :
                  IF f.outcome # "ok" THEN Result(f.outcome, f.ax, c.nfig, n)
                  ELSE Return(SetYlimBottom(f.ax), c.nfig, n, c.fig, c.ax)))))

\* the outcome of the first validation that fails, "ok" if none does
RECURSIVE FirstFailure(_)
FirstFailure(vs) ==
    IF vs = <<>> THEN "ok"
    ELSE IF Head(vs).outcome # "ok" THEN Head(vs).outcome
    ELSE FirstFailure(Tail(vs))

RECURSIVE Concat(_)
Concat(ss) == IF ss = <<>> THEN <<>> ELSE Head(ss) \o Concat(Tail(ss))

\* np.concatenate(y_arrays)
AllY_FirstSeriesOnly(vy) == vy[1].arr

AllY(vy) == Concat([i \in 1..Len(vy) |-> vy[i].arr])

\* colors is NoColors or Some(c), c the number of colors the caller supplies;
\* the length of the color list the plot loop zips over, for k series
NoColors == [some |-> FALSE, v |-> 0]
ColorCount(colors, k) ==
    IF ~colors.some THEN Min(k, PaletteLen)
    \* list(colors) + GRAYSCALE_PALETTE[len(colors):len(y_arrays)]
    ELSE IF colors.v < k THEN colors.v + Max(0, Min(k, PaletteLen) - colors.v)
    ELSE colors.v

\* labels is [kind, n]: None, one string, or a list of n strings; the
\* length of label_list after it was filled up with None, for k series
NoLabels == [kind |-> "none", n |-> 0]
StrLabel == [kind |-> "str", n |-> 1]
ListLabels(n) == [kind |-> "list", n |-> n]
LabelCount(labels, k) ==
    IF labels.kind = "none" THEN k ELSE Max(labels.n, k)

\* the lines of `for ... in zip(y_arrays, colors, label_list)`: zip stops at
\* the shortest of the three
PlotLines(vx, vy, colors, labels) ==
    [i \in 1..Min(Len(vy), Min(ColorCount(colors, Len(vy)), LabelCount(labels, Len(vy)))) |->
        [series |-> i, xlen |-> Len(vx.arr), ylen |-> Len(vy[i].arr)]]

\* y is [multi, series]: one array (multi FALSE, one series) or a list of
\* arrays
LineCall_FirstSeriesOnly(x, y, colors, labels, figsize, ax0) ==
    Let(validate_data(x), LAMBDA vx :
    IF vx.outcome # "ok" THEN Result(vx.outcome, NewAxes, 0, <<>>)
    ELSE Let([i \in 1..Len(y.series) |-> validate_data(y.series[i])], LAMBDA vy :
         IF FirstFailure(vy) # "ok" THEN Result(FirstFailure(vy), NewAxes, 0, <<>>)
         ELSE IF Len(vy[1].arr) # Len(vx.arr)
         THEN Result("ValueError", NewAxes, 0, <<>>)
         ELSE Let(create_figure_and_axes(figsize, ax0), LAMBDA c :
              LET a1 == [NewAxes EXCEPT !.lines = PlotLines(vx, vy, colors, labels)]
              IN  Let(Finish(a1, Some(vx.arr), Some(AllY(vy))), LAMBDA f :
                      IF f.outcome # "ok" THEN Result(f.outcome, f.ax, c.nfig, <<>>)
                      ELSE Return(f.ax, c.nfig, <<>>, c.fig, c.ax)))))

LineCall(x, y, colors, labels, figsize, ax0) ==
    Let(validate_data(x), LAMBDA vx :
    IF vx.outcome # "ok" THEN Result(vx.outcome, NewAxes, 0, <<>>)
    ELSE Let([i \in 1..Len(y.series) |-> validate_data(y.series[i])], LAMBDA vy :
         IF FirstFailure(vy) # "ok" THEN Result(FirstFailure(vy), NewAxes, 0, <<>>)
         ELSE IF \E i \in 1..Len(vy) : Len(vy[i].arr) # Len(vx.arr)
         THEN Result("ValueError", NewAxes, 0, <<>>)
         ELSE Let(create_figure_and_axes(figsize, ax0), LAMBDA c :
              LET a1 == [NewAxes EXCEPT !.lines = PlotLines(vx, vy, colors, labels)]
              IN  Let(Finish(a1, Some(vx.arr), Some(AllY(vy))), LAMBDA f :
                      IF f.outcome # "ok" THEN Result(f.outcome, f.ax, c.nfig, <<>>)
                      ELSE Return(f.ax, c.nfig, <<>>, c.fig, c.ax)))))

\* core._scatter_basic
ScatterBasic(x_array, y_array, figsize, ax0) ==
    Let(create_figure_and_axes(figsize, ax0), LAMBDA c :
    LET a1 == [NewAxes EXCEPT
                  !.points = <<[xlen |-> Len(x_array), ylen |-> Len(y_array)]>>]
    IN  Let(Finish(a1, Some(x_array), Some(y_array)), LAMBDA f :
            IF f.outcome # "ok" THEN Result(f.outcome, f.ax, c.nfig, <<>>)
            ELSE Return(f.ax, c.nfig, <<>>, c.fig, c.ax)))

\* the bars of one marginal histogram
MarginalBars(r) ==
    Bars(r.bin_edges, r.percentages, FSub(r.bin_edges[2], r.bin_edges[1]))

\* the three axes of the GridSpec figure
AxesDict_OneAxes(fig) ==
    [main |-> AxesOf(fig, "gs[1,0]"), top |-> AxesOf(fig, "gs[1,0]"),
     right |-> AxesOf(fig, "gs[1,0]")]

AxesDict(fig) ==
    [main |-> AxesOf(fig, "gs[1,0]"), top |-> AxesOf(fig, "gs[0,0]"),
     right |-> AxesOf(fig, "gs[1,1]")]

\* core._scatter_with_marginals; nx and ny are the bin counts 'auto' arrives
\* at for x and for y
ScatterWithMarginals(x_array, y_array, figsize, nx, ny) ==
    LET fig == Figure("new", figsize)
        a1 == [NewAxes EXCEPT
                  !.points = <<[xlen |-> Len(x_array), ylen |-> Len(y_array)]>>]
    IN  Let(normalize_to_percentage(x_array, NameBins(nx)), LAMBDA rx :
        IF rx.outcome # "ok" THEN Result(rx.outcome, a1, 1, <<>>)
        ELSE Let(normalize_to_percentage(y_array, NameBins(ny)), LAMBDA ry :
             IF ry.outcome # "ok"
             THEN Result(ry.outcome, [a1 EXCEPT !.topbars = MarginalBars(rx)], 1,
                         <<NormRecord(x_array, NameBins(nx), rx)>>)
             ELSE Let(Finish([a1 EXCEPT !.topbars = MarginalBars(rx),
                                        !.rightbars = MarginalBars(ry)],
                             Some(x_array), Some(y_array)), LAMBDA f :
                      LET n == <<NormRecord(x_array, NameBins(nx), rx),
                                 NormRecord(y_array, NameBins(ny), ry)>>
                      IN  IF f.outcome # "ok" THEN Result(f.outcome, f.ax, 1, n)
                          ELSE ReturnDict(f.ax, 1, n, fig, AxesDict(fig)))))

\* figsize=None
NoFigsize == [some |-> FALSE, v |-> ""]

\* figsize is NoFigsize or Some(size); ax is ignored with marginals
ScatterCall(x, y, marginals, figsize, ax0, nx, ny) ==
    Let([x |-> validate_data(x), y |-> validate_data(y)], LAMBDA v :
    IF v.x.outcome # "ok" THEN Result(v.x.outcome, NewAxes, 0, <<>>)
    ELSE IF v.y.outcome # "ok" THEN Result(v.y.outcome, NewAxes, 0, <<>>)
    ELSE IF Len(v.x.arr) # Len(v.y.arr) THEN Result("ValueError", NewAxes, 0, <<>>)
    ELSE LET size == IF figsize.some THEN figsize.v
                     ELSE IF marginals THEN SquareSize ELSE DefaultSize
         IN  IF marginals
             THEN ScatterWithMarginals(v.x.arr, v.y.arr, size, nx, ny)
             ELSE ScatterBasic(v.x.arr, v.y.arr, size, ax0))

(***************************************************************************)
(* The global rcParams of the plotting library and                         *)
(* utils.apply_tufte_rcparams.  Three of the keys of TUFTE_RC_PARAMS and   *)
(* one key outside it are modelled.  rcParams holds every valid key at all *)
(* times, and every key of TUFTE_RC_PARAMS is a valid key.                 *)
(***************************************************************************)
\* styles.TUFTE_RC_PARAMS
TUFTE_RC_PARAMS ==
    [k \in {"axes.spines.top", "font.family", "savefig.dpi"} |->
        CASE k = "axes.spines.top" -> "False"
          [] k = "font.family" -> "serif"
          [] k = "savefig.dpi" -> "300"]

\* rcParams as the library sets it up
DefaultRcParams ==
    [k \in {"axes.spines.top", "font.family", "savefig.dpi", "image.cmap"} |->
        CASE k = "axes.spines.top" -> "True"
          [] k = "font.family" -> "['sans-serif']"
          [] k = "savefig.dpi" -> "figure"
          [] k = "image.cmap" -> "viridis"]

\* the value rcParams stores for a value assigned to a key: a font family
\* given as one name is stored as a list of one name
Validated(k, v) ==
    IF k = "font.family" /\ v = "serif" THEN "['serif']" ELSE v

\* rcParams[key] = value for every item of a dict; assigning to a key that
\* rcParams does not hold is a KeyError and cannot happen for these dicts
RcUpdate(rc, items) ==
    [k \in DOMAIN rc |->
        IF k \in DOMAIN items THEN Validated(k, items[k]) ELSE rc[k]]

apply_tufte_rcparams_SavedAfterSet(rc) ==
    [rcParams |-> RcUpdate(rc, TUFTE_RC_PARAMS),
     previous |-> [k \in DOMAIN TUFTE_RC_PARAMS \cap DOMAIN rc |->
                      RcUpdate(rc, TUFTE_RC_PARAMS)[k]]]

\* utils.apply_tufte_rcparams: the rcParams it leaves and the dict returned
apply_tufte_rcparams(rc) ==
    [rcParams |-> RcUpdate(rc, TUFTE_RC_PARAMS),
     previous |-> [k \in DOMAIN TUFTE_RC_PARAMS \cap DOMAIN rc |-> rc[k]]]

(***************************************************************************)
(* The state machine: a caller makes one call at a time (pc "idle" to      *)
(* "done") and closes the figures before the next one.                     *)
(***************************************************************************)
NoArgs == [data |-> Arr(<<>>)]

Init ==
    /\ pc = "idle"
    /\ op = "none"
    /\ args = NoArgs
    /\ outcome = "none"
    /\ ret = <<>>
    /\ norms = <<>>
    /\ ax = NewAxes
    /\ nfig = 0
    /\ rcParams = DefaultRcParams

\* validate_data(data) called on any kind of Python value
ValidateData ==
    /\ pc = "idle"
    /\ \E data \in Objects :
          \E v \in {validate_data(data)} :
              /\ op' = "validate_data"
              /\ args' = [data |-> data]
              /\ outcome' = v.outcome
              /\ ret' = v.arr
    /\ pc' = "done"
    /\ UNCHANGED <<norms, ax, nfig, rcParams>>

\* normalize_to_percentage(data, bins) called directly
NormalizeToPercentage ==
    /\ pc = "idle"
    /\ \E data \in Samples :
          \E bins \in BinSpecs(data) :
             \E r \in {normalize_to_percentage(data, bins)} :
             /\ op' = "normalize_to_percentage"
             /\ args' = [data |-> data, bins |-> bins]
             /\ outcome' = r.outcome
             /\ norms' = IF r.outcome = "ok" THEN <<NormRecord(data, bins, r)>> ELSE <<>>
    /\ pc' = "done"
    /\ UNCHANGED <<ret, ax, nfig, rcParams>>

\* an axes that an earlier call of range_frame has framed on both axes
FramedAxes ==
    range_frame(NewAxes, Some(<<Zero, Whole(MaxVal)>>), Some(<<Zero, Whole(MaxVal)>>),
                DefaultPadding, DefaultPadding).ax

\* the axes range_frame is called on: new, or framed before
PriorAxes == {NewAxes, FramedAxes}

\* range_frame(ax, x_data, y_data, x_padding, y_padding)
RangeFrame ==
    /\ pc = "idle"
    /\ \E ax0 \in PriorAxes,
          x_data \in {None} \cup {Some(a) : a \in FrameSamples},
          y_data \in {None} \cup {Some(a) : a \in FrameSamples},
          x_padding \in Pads, y_padding \in Pads :
          \E f \in {range_frame(ax0, x_data, y_data, x_padding, y_padding)} :
          /\ op' = "range_frame"
          /\ args' = [ax |-> ax0, x_data |-> x_data, y_data |-> y_data,
                      x_padding |-> x_padding, y_padding |-> y_padding]
          /\ outcome' = f.outcome
          /\ ax' = f.ax
    /\ pc' = "done"
    /\ UNCHANGED <<ret, norms, nfig, rcParams>>

\* the ax argument: None, or the caller's own axes
AxArgs == {NoAx, Some(CallerAxes)}

\* histogram(data, bins, figsize, ax)
Histogram ==
    /\ pc = "idle"
    /\ \E data \in Samples, figsize \in {DefaultSize, CustomSize}, ax0 \in AxArgs :
          \E bins \in BinSpecs(data) :
             \E r \in {HistogramCall(Arr(data), bins, figsize, ax0)} :
             /\ op' = "histogram"
             /\ args' = [data |-> data, bins |-> bins, figsize |-> figsize, ax |-> ax0]
             /\ outcome' = r.outcome
             /\ ret' = r.ret
             /\ norms' = r.norms
             /\ ax' = r.ax
             /\ nfig' = r.nfig
    /\ pc' = "done"
    /\ UNCHANGED rcParams

\* the values and the arrays of a list of y series
SeriesValues == {Whole(0), Whole(MaxVal), NaN}
LineSeries == SeqsUpTo(SeriesValues, MaxPairLen)

\* lists of series: any one or two series, and 3..MaxSeries times the same
\* series
SeriesLists ==
    UNION {[1..m -> LineSeries] : m \in 1..2}
        \cup {[i \in 1..m |-> s] : m \in 3..MaxSeries, s \in LineSeries}

\* the x of a call with a list of series
MultiXs == SeqsUpTo({Whole(0), Whole(MaxVal)}, MaxPairLen) \ {<<>>}

\* x and y of line: y is one array, or a list of arrays
LineXYs ==
    {[x |-> x, y |-> [multi |-> FALSE, series |-> <<Arr(a)>>]] :
        x \in PairSamples, a \in PairSamples}
        \cup {[x |-> x, y |-> [multi |-> TRUE, series |-> [i \in 1..Len(l) |-> Arr(l[i])]]] :
                x \in MultiXs, l \in SeriesLists}

\* colors, labels, figsize and ax of line: the defaults, a choice of colors
\* and labels, or a choice of figsize and ax
LineOptions ==
    {[colors |-> c, labels |-> l, figsize |-> DefaultSize, ax |-> NoAx] :
        c \in {NoColors, Some(1), Some(MaxSeries)},
        l \in {NoLabels, StrLabel, ListLabels(MaxSeries + 1)}}
        \cup {[colors |-> NoColors, labels |-> NoLabels, figsize |-> f, ax |-> a] :
                f \in {DefaultSize, CustomSize}, a \in AxArgs}

\* line(x, y, labels, figsize, ax, colors)
Line ==
    /\ pc = "idle"
    /\ \E xy \in LineXYs, o \in LineOptions :
          \E r \in {LineCall(Arr(xy.x), xy.y, o.colors, o.labels, o.figsize, o.ax)} :
          /\ op' = "line"
          /\ args' = [x |-> xy.x, y |-> xy.y, colors |-> o.colors, labels |-> o.labels,
                      figsize |-> o.figsize, ax |-> o.ax]
          /\ outcome' = r.outcome
          /\ ret' = r.ret
          /\ norms' = r.norms
          /\ ax' = r.ax
          /\ nfig' = r.nfig
    /\ pc' = "done"
    /\ UNCHANGED rcParams

\* scatter(x, y, marginals, figsize, ax)
Scatter ==
    /\ pc = "idle"
    /\ \E x \in PairSamples, y \in PairSamples, marginals \in BOOLEAN,
          figsize \in {NoFigsize, Some(CustomSize)}, ax0 \in AxArgs :
          \E nx \in (IF marginals THEN AutoBins(x) ELSE {1}),
             ny \in (IF marginals THEN AutoBins(y) ELSE {1}) :
             \E r \in {ScatterCall(Arr(x), Arr(y), marginals, figsize, ax0, nx, ny)} :
             /\ op' = "scatter"
             /\ args' = [x |-> x, y |-> y, marginals |-> marginals,
                         figsize |-> figsize, ax |-> ax0, nx |-> nx, ny |-> ny]
             /\ outcome' = r.outcome
             /\ ret' = r.ret
             /\ norms' = r.norms
             /\ ax' = r.ax
             /\ nfig' = r.nfig
    /\ pc' = "done"
    /\ UNCHANGED rcParams

\* apply_tufte_rcparams()
ApplyTufteRcparams ==
    /\ pc = "idle"
    /\ \E r \in {apply_tufte_rcparams(rcParams)} :
          /\ op' = "apply_tufte_rcparams"
          /\ args' = [before |-> rcParams]
          /\ outcome' = "ok"
          /\ ret' = r.previous
          /\ rcParams' = r.rcParams
    /\ pc' = "done"
    /\ UNCHANGED <<norms, ax, nfig>>

\* the caller writes the dict apply_tufte_rcparams returned back:
\* plt.rcParams.update(previous_params)
RestoreRcparams ==
    /\ pc = "done"
    /\ op = "apply_tufte_rcparams"
    /\ op' = "rcParams.update"
    /\ rcParams' = RcUpdate(rcParams, ret)
    /\ UNCHANGED <<pc, args, outcome, ret, norms, ax, nfig>>

\* plt.close('all') between two calls; rcParams stays as it is
Close ==
    /\ pc = "done"
    /\ pc' = "idle"
    /\ op' = "none"
    /\ args' = NoArgs
    /\ outcome' = "none"
    /\ ret' = <<>>
    /\ norms' = <<>>
    /\ ax' = NewAxes
    /\ nfig' = 0
    /\ UNCHANGED rcParams

Next ==
    \/ ApplyTufteRcparams
    \/ RestoreRcparams
    \/ Close
    \/ ValidateData
    \/ NormalizeToPercentage
    \/ RangeFrame
    \/ Histogram
    \/ Line
    \/ Scatter

Spec == Init /\ [][Next]_vars

(***************************************************************************)
(* Properties.                                                             *)
(***************************************************************************)
\* a sample that passes validate_data: not empty and not all nan
ValidSample(a) == Len(a) > 0 /\ ~AllNaN(a)
EmptyOrAllNaN(a) == Len(a) = 0 \/ AllNaN(a)

\* some value of the sample lies within the first and the last bin edge
SomeValueWithin(a, e) ==
    \E j \in 1..Len(a) : FLe(e[1], a[j]) /\ FLe(a[j], e[Len(e)])

AllZero(p) == \A b \in 1..Len(p) : p[b] = Zero

\* the exact sum of a sequence of numbers
RECURSIVE FSum(_)
FSum(s) == IF s = <<>> THEN Zero ELSE FAdd(Head(s), FSum(Tail(s)))

C2_Proportional ==
    \A i \in 1..Len(norms) :
        LET r == norms[i]
            t == SeqSum(r.counts)
        IN  /\ Len(r.percentages) = Len(r.counts)
            /\ t > 0 =>
                 \A b \in 1..Len(r.counts) :
                    /\ IsFinite(r.percentages[b])
                    /\ r.percentages[b].n * t = 100 * r.counts[b] * r.percentages[b].d
                    /\ FLe(Zero, r.percentages[b])
                    /\ FLe(r.percentages[b], Whole(100))
            /\ r.counts = <<1, 2, 3>> =>
                 r.percentages = <<Frac(50, 3), Frac(100, 3), Whole(50)>>

\* the six-value sample in three equal bins
C2_Witness ==
    /\ op = "histogram"
    /\ outcome = "ok"
    /\ Len(norms) = 1
    /\ norms[1].bins = IntBins(3)
    /\ norms[1].counts = <<1, 2, 3>>
    /\ norms[1].percentages = <<Frac(50, 3), Frac(100, 3), Whole(50)>>

\* the frame and display bounds one axis must have after range_frame
HasFrame(bounds, lo, hi) == bounds = [set |-> TRUE, lo |-> lo, hi |-> hi]
HasLimits(lim, lo, hi) == lim = [lo |-> lo, hi |-> hi, auto |-> FALSE]
RangePositive(a) == Len(a) > 0 /\ FGt(NpMax(a), NpMin(a))
Constant(a) == Len(a) > 0 /\ \A j \in 1..Len(a) : FEq(a[j], a[1])

\* C3 as stated: range_frame with data whose max > min sets the spine bounds
\* of that axis to exactly (min, max) of the data, whatever the padding.
C3_FrameIsDataExtent ==
    op = "range_frame" =>
        /\ (args.x_data.some /\ RangePositive(args.x_data.v)) =>
              HasFrame(ax.bottom, NpMin(args.x_data.v), NpMax(args.x_data.v))
        /\ (~args.x_data.some /\ args.y_data.some /\ RangePositive(args.y_data.v)) =>
              HasFrame(ax.left, NpMin(args.y_data.v), NpMax(args.y_data.v))

\* C4 as stated: range_frame with data whose max > min sets the display
\* limits of that axis to [min - pad*range, max + pad*range].
C4_DisplayIsPadded ==
    op = "range_frame" =>
        /\ (args.x_data.some /\ RangePositive(args.x_data.v)) =>
              LET mn == NpMin(args.x_data.v)
                  mx == NpMax(args.x_data.v)
                  p == FMul(args.x_padding, FSub(mx, mn))
              IN  HasLimits(ax.xlim, FSub(mn, p), FAdd(mx, p))
        /\ (~args.x_data.some /\ args.y_data.some /\ RangePositive(args.y_data.v)) =>
              LET mn == NpMin(args.y_data.v)
                  mx == NpMax(args.y_data.v)
                  p == FMul(args.y_padding, FSub(mx, mn))
              IN  HasLimits(ax.ylim, FSub(mn, p), FAdd(mx, p))

\* C5 as stated: range_frame with constant data (all values equal to v) sets
\* the display limits to [v - 0.5, v + 0.5] and the frame bounds to [v, v],
\* whatever the padding.
C5_ConstantData ==
    op = "range_frame" =>
        /\ (args.x_data.some /\ Constant(args.x_data.v)) =>
              LET v == args.x_data.v[1] IN
              /\ HasLimits(ax.xlim, FSub(v, Half), FAdd(v, Half))
              /\ HasFrame(ax.bottom, v, v)
        /\ (~args.x_data.some /\ args.y_data.some /\ Constant(args.y_data.v)) =>
              LET v == args.y_data.v[1] IN
              /\ HasLimits(ax.ylim, FSub(v, Half), FAdd(v, Half))
              /\ HasFrame(ax.left, v, v)

\* a list, an array or a Series of numbers
NumericInput(data) == data.ty \in NumericTypes

\* C6: validate_data raises ValueError for an input of size zero and for an
\* all-nan input and returns the converted array for every other numeric
\* input; histogram, line and scatter raise ValueError on an empty or
\* all-nan argument.
C6_EmptyOrAllNaNRejected ==
    /\ (op = "validate_data" /\ NumericInput(args.data)) =>
          IF EmptyOrAllNaN(args.data.elems)
          THEN outcome = "ValueError"
          ELSE outcome = "ok" /\ ret = args.data.elems
    /\ (op = "histogram" /\ EmptyOrAllNaN(args.data)) => outcome = "ValueError"
    /\ (op = "line" /\ (\/ EmptyOrAllNaN(args.x)
                        \/ \E i \in 1..Len(args.y.series) :
                              EmptyOrAllNaN(args.y.series[i].elems))) =>
          outcome = "ValueError"
    /\ (op = "scatter" /\ (EmptyOrAllNaN(args.x) \/ EmptyOrAllNaN(args.y))) =>
          outcome = "ValueError"

\* line was given a valid x and a list of series whose second one is all nan
C6_Witness ==
    /\ op = "line"
    /\ ValidSample(args.x)
    /\ args.y.multi
    /\ Len(args.y.series) = 2
    /\ ValidSample(args.y.series[1].elems)
    /\ Len(args.y.series[2].elems) > 0
    /\ AllNaN(args.y.series[2].elems)
    /\ outcome = "ValueError"
    /\ nfig = 0

\* C7: line raises ValueError when any y series has a length different from
\* x, scatter raises ValueError when len(x) # len(y), and no mismatched pair
\* is ever plotted.
C7_LengthMismatchRejected ==
    /\ (op = "line" /\ \E i \in 1..Len(args.y.series) :
                          Len(args.y.series[i].elems) # Len(args.x)) =>
          outcome = "ValueError" /\ ax.lines = <<>>
    /\ (op = "scatter" /\ Len(args.x) # Len(args.y)) =>
          outcome = "ValueError" /\ ax.points = <<>>
    /\ \A i \in 1..Len(ax.lines) : ax.lines[i].xlen = ax.lines[i].ylen
    /\ \A i \in 1..Len(ax.points) : ax.points[i].xlen = ax.points[i].ylen

\* line was given two valid series, the first of x's length, the second not
C7_Witness ==
    /\ op = "line"
    /\ ValidSample(args.x)
    /\ args.y.multi
    /\ Len(args.y.series) = 2
    /\ ValidSample(args.y.series[1].elems)
    /\ ValidSample(args.y.series[2].elems)
    /\ Len(args.y.series[1].elems) = Len(args.x)
    /\ Len(args.y.series[2].elems) # Len(args.x)
    /\ outcome = "ValueError"
    /\ ax.lines = <<>>

C9_ZeroTotalGivesZeros ==
    /\ \A i \in 1..Len(norms) :
          SeqSum(norms[i].counts) = 0 => AllZero(norms[i].percentages)
    /\ (/\ op = "normalize_to_percentage"
        /\ args.bins.kind = "edges"
        /\ Monotonic(args.bins.edges)
        /\ ~SomeValueWithin(args.data, args.bins.edges)) =>
          /\ outcome = "ok"
          /\ Len(norms) = 1
          /\ Len(norms[1].percentages) = Len(args.bins.edges) - 1
          /\ AllZero(norms[1].percentages)

\* a sample with every value outside two explicit bins
C9_Witness ==
    /\ op = "normalize_to_percentage"
    /\ outcome = "ok"
    /\ Len(norms) = 1
    /\ Len(norms[1].data) > 0
    /\ norms[1].total = 0
    /\ norms[1].percentages = <<Zero, Zero>>

\* C10 as stated: validate_data either returns a numeric array or raises
\* TypeError (the input cannot be converted to a numeric array) or
\* ValueError (the converted array is empty or all nan), and nothing else.
C10_TwoErrorKinds ==
    op = "validate_data" =>
        /\ outcome \in {"ok", "TypeError", "ValueError"}
        /\ outcome = "ok" => NumericInput(args.data) /\ ret = args.data.elems
        /\ outcome = "ValueError" =>
              NumericInput(args.data) /\ EmptyOrAllNaN(args.data.elems)
        /\ outcome # "ok" => ret = <<>>

\* a bin specification np.histogram accepts: a count of at least one, a
\* named strategy, or edges that do not decrease
ValidBins(b) == IF b.kind = "edges" THEN Monotonic(b.edges) ELSE b.n >= 1

\* the arguments of the call pass every validation of the entry point
ValidCall ==
    CASE op = "histogram" -> ValidSample(args.data) /\ ValidBins(args.bins)
      [] op = "line" ->
            /\ ValidSample(args.x)
            /\ \A i \in 1..Len(args.y.series) :
                  /\ ValidSample(args.y.series[i].elems)
                  /\ Len(args.y.series[i].elems) = Len(args.x)
      [] op = "scatter" ->
            ValidSample(args.x) /\ ValidSample(args.y) /\ Len(args.x) = Len(args.y)
      [] OTHER -> FALSE

\* C11 as stated: histogram, line and scatter return for every sample that
\* passes validation, a sample holding an infinite value and a sample mixing
\* nan with valid values included.
C11_NonFiniteAccepted ==
    ValidCall => outcome = "ok"


\* C12: in every result of normalize_to_percentage, called directly or from
\* histogram or scatter, the bin-edge sequence has exactly one more element
\* than the percentage sequence; an integer count n gives n percentages.
C12_OneMoreEdge ==
    /\ \A i \in 1..Len(norms) :
          /\ Len(norms[i].bin_edges) = Len(norms[i].percentages) + 1
          /\ norms[i].bins.kind # "edges" =>
                Len(norms[i].percentages) = norms[i].bins.n
    /\ (op = "normalize_to_percentage" /\ outcome = "ok") => Len(norms) = 1

\* a direct call with explicit edges of several bins returned
C12_Witness ==
    /\ op = "normalize_to_percentage"
    /\ outcome = "ok"
    /\ Len(norms) = 1
    /\ norms[1].bins.kind = "edges"
    /\ Len(norms[1].bin_edges) > 2
    /\ Len(norms[1].percentages) = Len(norms[1].bin_edges) - 1


\* the frame bounds and the display limits that range_frame derives from
\* the data and the padding of one axis
FrameOf(data) == [set |-> TRUE, lo |-> NpMin(data), hi |-> NpMax(data)]
LimitsOf(data, padding) ==
    LET mn == NpMin(data)
        mx == NpMax(data)
    IN  IF FGt(mx, mn)
        THEN [lo |-> FSub(mn, FMul(padding, FSub(mx, mn))),
              hi |-> FAdd(mx, FMul(padding, FSub(mx, mn))), auto |-> FALSE]
        ELSE [lo |-> FSub(mn, Half), hi |-> FAdd(mx, Half), auto |-> FALSE]

\* one axis after range_frame is as it was before the call, or carries the
\* limits and bounds derived from its own data and padding
AxisUntouched(lim, bounds, lim0, bounds0) == lim = lim0 /\ bounds = bounds0
AxisFramed(lim, bounds, data, padding) ==
    /\ Len(data) > 0
    /\ lim = LimitsOf(data, padding)
    /\ bounds = FrameOf(data)

\* C13: range_frame leaves the x limits and the bottom-spine bounds as they
\* were when x_data is None, and the y limits and the left-spine bounds as
\* they were when y_data is None; whatever it sets on one axis is derived
\* from that axis's data and padding alone, and a call that returns has set
\* every axis whose data was supplied.
C13_AxesIndependent ==
    op = "range_frame" =>
        /\ ax = [args.ax EXCEPT !.xlim = ax.xlim, !.bottom = ax.bottom,
                                !.ylim = ax.ylim, !.left = ax.left]
        /\ IF ~args.x_data.some
           THEN AxisUntouched(ax.xlim, ax.bottom, args.ax.xlim, args.ax.bottom)
           ELSE \/ AxisFramed(ax.xlim, ax.bottom, args.x_data.v, args.x_padding)
                \/ /\ outcome # "ok"
                   /\ AxisUntouched(ax.xlim, ax.bottom, args.ax.xlim, args.ax.bottom)
        /\ IF ~args.y_data.some
           THEN AxisUntouched(ax.ylim, ax.left, args.ax.ylim, args.ax.left)
           ELSE \/ AxisFramed(ax.ylim, ax.left, args.y_data.v, args.y_padding)
                \/ /\ outcome # "ok"
                   /\ AxisUntouched(ax.ylim, ax.left, args.ax.ylim, args.ax.left)

\* range_frame on an axes framed before, with y_data only and a y padding
\* that differs from the x padding: y is framed anew, x is as it was
C13_Witness ==
    /\ op = "range_frame"
    /\ outcome = "ok"
    /\ args.ax.bottom.set
    /\ ~args.x_data.some
    /\ args.y_data.some
    /\ RangePositive(args.y_data.v)
    /\ args.y_padding # args.x_padding
    /\ args.y_padding # Zero
    /\ ax.bottom = args.ax.bottom
    /\ ax.xlim = args.ax.xlim
    /\ ax.ylim # args.ax.ylim
    /\ ax.ylim = LimitsOf(args.y_data.v, args.y_padding)


\* C14: after histogram returns, the x axis carries the range frame of the
\* sample (display limits padded by the default padding, bottom-spine
\* bounds the data min and max), the left-spine bounds were never set, and
\* the lower y limit is 0; set_ylim(bottom=0) left the x limits alone.
C14_HistogramAxes ==
    (op = "histogram" /\ outcome = "ok") =>
        /\ ax.xlim = LimitsOf(args.data, DefaultPadding)
        /\ ax.bottom = FrameOf(args.data)
        /\ ax.left = NoBounds
        /\ ax.ylim.lo = Zero
        /\ ~ax.ylim.auto

\* histogram returned for a sample of several distinct values
C14_Witness ==
    /\ op = "histogram"
    /\ outcome = "ok"
    /\ RangePositive(args.data)
    /\ Len(ax.bars) > 1
    /\ ax.bottom.set
    /\ FLt(ax.xlim.lo, ax.bottom.lo)
    /\ ~ax.left.set
    /\ ax.ylim.lo = Zero


\* C15 as stated: line draws exactly one line per supplied y series, the
\* i-th line showing the i-th series, for one array and for a list of any
\* number of arrays, whether or not colors and labels are supplied.
C15_OneLinePerSeries ==
    (op = "line" /\ outcome = "ok") =>
        /\ Len(ax.lines) = Len(args.y.series)
        /\ \A i \in 1..Len(ax.lines) : ax.lines[i].series = i


\* C16: scatter returns (figure, axes) when marginals is false and
\* (figure, mapping) when marginals is true; the mapping has exactly the
\* keys 'main', 'top' and 'right', bound to three distinct axes of the
\* returned figure.  A scatter that raises returns nothing.
C16_ScatterReturn ==
    op = "scatter" =>
        IF outcome # "ok" THEN ret = <<>>
        ELSE /\ Len(ret) = 2
             /\ IF args.marginals
                THEN /\ ret[2].type = "dict"
                     /\ DOMAIN ret[2].v = {"main", "top", "right"}
                     /\ Cardinality({ret[2].v[k] : k \in DOMAIN ret[2].v}) = 3
                     /\ \A k \in DOMAIN ret[2].v : ret[2].v[k].fig = ret[1]
                ELSE /\ ret[2].type = "Axes"
                     /\ ret[2].v.fig = ret[1]

\* scatter with marginals returned, the caller's ax being ignored
C16_Witness ==
    /\ op = "scatter"
    /\ outcome = "ok"
    /\ args.marginals
    /\ args.ax.some
    /\ ret[2].type = "dict"
    /\ ret[1].id = "new"
    /\ ret[2].v.main # ret[2].v.top
    /\ Len(ax.topbars) > 0
    /\ Len(ax.rightbars) > 0


\* histogram, line, or scatter without marginals
SingleAxesCall == op \in {"histogram", "line"} \/ (op = "scatter" /\ ~args.marginals)

\* the figure size the call asks for when it creates a figure
RequestedSize ==
    IF op = "scatter"
    THEN IF args.figsize.some THEN args.figsize.v
         ELSE IF args.marginals THEN SquareSize ELSE DefaultSize
    ELSE args.figsize

\* C17: with an existing axes passed as ax, histogram, line and scatter
\* (marginals false) create no figure, and return the supplied axes and the
\* figure that owns it, whose size is not the figsize of the call; with ax
\* None a call that returns has created exactly one figure of the requested
\* size with one axes, and returns them.
C17_SuppliedAxesReused ==
    SingleAxesCall =>
        IF args.ax.some
        THEN /\ nfig = 0
             /\ outcome = "ok" =>
                   /\ ret[2].type = "Axes"
                   /\ ret[2].v = args.ax.v
                   /\ ret[1] = args.ax.v.fig
                   /\ ret[1].figsize = CallerSize
        ELSE /\ nfig \in {0, 1}
             /\ outcome = "ok" =>
                   /\ nfig = 1
                   /\ ret[1] = Figure("new", RequestedSize)
                   /\ ret[2].type = "Axes"
                   /\ ret[2].v = AxesOf(ret[1], "subplot")

\* line drew on the caller's axes while a figsize was passed
C17_Witness ==
    /\ op = "line"
    /\ outcome = "ok"
    /\ args.ax.some
    /\ args.figsize = CustomSize
    /\ nfig = 0
    /\ ret[1].id = "caller"
    /\ ret[1].figsize = CallerSize
    /\ Len(ax.lines) > 0


\* C18 as stated: whenever histogram, line or scatter raises, it has created
\* no figure and has neither drawn on nor restyled an axes: every failure
\* happens before the figure and the axes are obtained.
C18_NoEffectOnFailure ==
    (op \in {"histogram", "line", "scatter"} /\ outcome # "ok") =>
        /\ nfig = 0
        /\ ax = NewAxes


\* bar i spans bin i of the edges: left edge e[i], width e[i+1] - e[i]
SpansBins(bars, e) ==
    /\ Len(bars) = Len(e) - 1
    /\ \A i \in 1..Len(bars) :
          /\ bars[i].left = e[i]
          /\ bars[i].width = FSub(e[i + 1], e[i])

\* C19 as stated: for every bin specification, unequally spaced explicit
\* edges included, each bar drawn by histogram and by the marginal
\* histograms of scatter spans exactly its bin.
C19_BarsSpanBins ==
    /\ (op = "histogram" /\ Len(norms) = 1) => SpansBins(ax.bars, norms[1].bin_edges)
    /\ (op = "scatter" /\ Len(norms) >= 1) => SpansBins(ax.topbars, norms[1].bin_edges)
    /\ (op = "scatter" /\ Len(norms) = 2) => SpansBins(ax.rightbars, norms[2].bin_edges)


\* every value of every y series handed to line
SeriesUnion ==
    UNION {{args.y.series[i].elems[j] : j \in 1..Len(args.y.series[i].elems)} :
              i \in 1..Len(args.y.series)}

\* C20: after line returns, the left-spine bounds are the minimum and the
\* maximum over every value of every supplied y series and the y limits
\* pad that range; the bottom-spine bounds and the x limits come from x
\* alone.
C20_UnionOfSeries ==
    (op = "line" /\ outcome = "ok") =>
        /\ ax.left.set
        /\ ax.left.lo \in SeriesUnion
        /\ ax.left.hi \in SeriesUnion
        /\ \A v \in SeriesUnion : FLe(ax.left.lo, v) /\ FLe(v, ax.left.hi)
        /\ ax.ylim = (IF FGt(ax.left.hi, ax.left.lo)
                      THEN [lo |-> FSub(ax.left.lo,
                                        FMul(DefaultPadding, FSub(ax.left.hi, ax.left.lo))),
                            hi |-> FAdd(ax.left.hi,
                                        FMul(DefaultPadding, FSub(ax.left.hi, ax.left.lo))),
                            auto |-> FALSE]
                      ELSE [lo |-> FSub(ax.left.lo, Half), hi |-> FAdd(ax.left.hi, Half),
                            auto |-> FALSE])
        /\ ax.bottom = FrameOf(args.x)
        /\ ax.xlim = LimitsOf(args.x, DefaultPadding)

\* two constant series, the first above the second: the frame runs from the
\* value of the second to the value of the first
C20_Witness ==
    /\ op = "line"
    /\ outcome = "ok"
    /\ args.y.multi
    /\ Len(args.y.series) = 2
    /\ Constant(args.y.series[1].elems)
    /\ Constant(args.y.series[2].elems)
    /\ FGt(args.y.series[1].elems[1], args.y.series[2].elems[1])
    /\ ax.left.lo = args.y.series[2].elems[1]
    /\ ax.left.hi = args.y.series[1].elems[1]
    /\ Len(ax.lines) = 2


AllFinite(a) == \A i \in 1..Len(a) : IsFinite(a[i])

\* the frame of one axis is that of the data and lies strictly inside the
\* display limits
FrameInsideDisplay(lim, bounds, data) ==
    /\ bounds = FrameOf(data)
    /\ FLt(lim.lo, bounds.lo)
    /\ FLe(bounds.lo, bounds.hi)
    /\ FLt(bounds.hi, lim.hi)

\* C21 as stated: after any call of range_frame with finite data and a
\* positive padding, display_min < frame_min <= frame_max < display_max on
\* that axis, in the range > 0 branch and in the constant-data branch.
C21_FrameInsideDisplay ==
    op = "range_frame" =>
        /\ (/\ args.x_data.some
            /\ Len(args.x_data.v) > 0
            /\ AllFinite(args.x_data.v)
            /\ FGt(args.x_padding, Zero)) =>
              FrameInsideDisplay(ax.xlim, ax.bottom, args.x_data.v)
        /\ (/\ ~args.x_data.some
            /\ args.y_data.some
            /\ Len(args.y_data.v) > 0
            /\ AllFinite(args.y_data.v)
            /\ FGt(args.y_padding, Zero)) =>
              FrameInsideDisplay(ax.ylim, ax.left, args.y_data.v)


\* after apply_tufte_rcparams every key of TUFTE_RC_PARAMS holds its Tufte
\* value, every other key holds what it held, and the dict returned holds
\* the earlier value of every key of TUFTE_RC_PARAMS that was present;
\* after the dict was written back rcParams is what it was before the call
RcParamsSavedAndRestored ==
    /\ op = "apply_tufte_rcparams" =>
          /\ DOMAIN rcParams = DOMAIN args.before
          /\ \A k \in DOMAIN TUFTE_RC_PARAMS :
                /\ k \in DOMAIN rcParams
                /\ rcParams[k] = Validated(k, TUFTE_RC_PARAMS[k])
          /\ \A k \in DOMAIN rcParams \ DOMAIN TUFTE_RC_PARAMS :
                rcParams[k] = args.before[k]
          /\ DOMAIN ret = DOMAIN TUFTE_RC_PARAMS \cap DOMAIN args.before
          /\ \A k \in DOMAIN ret : ret[k] = args.before[k]
    /\ op = "rcParams.update" => rcParams = args.before

\* a call of histogram, line or scatter leaves rcParams as it is
PlotKeepsRcParams ==
    op' \in {"histogram", "line", "scatter"} => rcParams' = rcParams

\* C22: apply_tufte_rcparams sets every key of TUFTE_RC_PARAMS in the global
\* rcParams and returns the previous value of every key that was present,
\* so that writing the returned dict back restores rcParams to its state
\* before the call; histogram, line and scatter never modify rcParams.
C22_RcParamsRestored ==
    []RcParamsSavedAndRestored /\ [][PlotKeepsRcParams]_vars

\* the returned dict was written back after the Tufte values had replaced
\* different ones
C22_Witness ==
    /\ op = "rcParams.update"
    /\ DOMAIN ret = DOMAIN TUFTE_RC_PARAMS
    /\ \A k \in DOMAIN ret : ret[k] # Validated(k, TUFTE_RC_PARAMS[k])
    /\ rcParams = args.before
    /\ \A k \in DOMAIN ret : rcParams[k] = ret[k]

=============================================================================
